---- MODULE Spec2Model ----
(***************************************************************************)
(* The air-camera pipeline: preprocessing (src/preprocessing.py), haze      *)
(* estimation (src/haze_estimation.py), haze feature extraction            *)
(* (src/feature_extraction.py), the stage sequence of run_pipeline         *)
(* (src/main.py), the predictor (src/psi_model.py: loading, predict_psi,   *)
(* psi_category) and the forecasting API (main.py, prediction_engine.py    *)
(* and future_policy_engine.py of urban_policy_decision_engine).           *)
(*                                                                         *)
(* Number representation                                                   *)
(*   - an 8-bit sample p stands for the float p/255, so the dark channel   *)
(*     of an image is held as integers 0..255 in units of 1/255;           *)
(*   - omega is held in twentieths (0.95 = 19/20), so that transmission    *)
(*     and haze values 1 - omega*k/255 are integers in units of 1/FDen,    *)
(*     FDen = 20*255 = 5100 (0.01 = 51/5100, 1.0 = 5100/5100);             *)
(*   - top_percent is a pair <<num, den>>;                                 *)
(*   - mean_haze, max_haze, contrast are integers in units of 10^-4 and    *)
(*     haze_variance in units of 10^-6, as round(x, 4) / round(x, 6) give; *)
(*   - the output of the PSI model is held in quarters of a point, the PSI *)
(*     in tenths, as round(x, 1) gives;                                    *)
(*   - AQI values are held in tenths, the predicted_AQI of a record is the *)
(*     whole number int() leaves.                                          *)
(***************************************************************************)
EXTENDS Integers, Sequences, FiniteSets

VARIABLES image, patch_size, top_percent, omega, cast_mode, pc,
          dark_channel, candidates, atmospheric_light, transmission_map,
          haze_map, features, error, files,
          source, resized, stages, vector, callers, cached_model, init_log,
          second_pass, model_output, psi, category,
          model, data, aqi_choices, hours_ahead, stations, station,
          history_values, step, future_predictions, model_inputs,
          prediction_cache, now, request, response

vars == <<image, patch_size, top_percent, omega, cast_mode, pc,
          dark_channel, candidates, atmospheric_light, transmission_map,
          haze_map, features, error, files,
          source, resized, stages, vector, callers, cached_model, init_log,
          second_pass, model_output, psi, category,
          model, data, aqi_choices, hours_ahead, stations, station,
          history_values, step, future_predictions, model_inputs,
          prediction_cache, now, request, response>>

\* the state of preprocessing, of run_pipeline and of the predictors, which
\* the functions of haze estimation leave alone
extVars == <<source, resized, stages, vector, callers, cached_model, init_log>>

\* the fields and parameters of haze estimation
hazeVars == <<image, patch_size, top_percent, omega, cast_mode, dark_channel,
              candidates, atmospheric_light, transmission_map, haze_map, features>>

\* the second pass of the dark-channel filter, and the prediction of the
\* pollution index
psiVars == <<second_pass, model_output, psi, category>>

\* the state of predict_future_aqi: the globals it reads, its loop variables
\* and the feature vectors it hands to the model
forecastVars == <<model, data, aqi_choices, hours_ahead, stations, station,
                  history_values, step, future_predictions, model_inputs>>

\* the state of the forecasting API around it
apiVars == <<prediction_cache, now, request, response>>

restVars == <<psiVars, forecastVars, apiVars>>

(***************************************************************************)
(* Program constants                                                       *)
(***************************************************************************)
PATCH_SIZE == 15

\* OMEGA = 0.95, in twentieths
OMEGA == 19

\* TOP_PERCENT = 0.1, as <<numerator, denominator>>
TOP_PERCENT == <<1, 10>>

\* denominator of transmission and haze values
FDen == 20 * 255

(***************************************************************************)
(* Bounds of the model                                                     *)
(***************************************************************************)
\* widest one-row image of the pipeline specification (the default 15x15
\* patch covers a narrower image whole)
MaxW == 9

\* image shapes and patch sizes of the dark-channel specification
MaxDarkH == 3
MaxDarkW == 3
MaxPatch == 4

\* image shapes of the atmospheric-light specification, and the longest
\* one-row image of its default-configuration part
MaxLightH == 2
MaxLightW == 2
MaxStrip == 20

\* image shapes of the transmission specification
MaxTransH == 1
MaxTransW == 2

\* number of elements of a haze field of the feature specification
MaxFieldLen == 3

\* image shapes of the single-colour specification
MaxUniH == 1
MaxUniW == 9

\* widest one-row image with pixels of the resize specification
MaxResizeW == 2

\* number of concurrent callers of the predictor specification
NumCallers == 2

\* the clock of the API advances MaxClock times by half an hour
MaxClock == 2

\* predict_future_aqi is called with hours_ahead up to MaxHours
MaxHours == 2

\* psi_category is tried on every PSI in tenths up to MaxPsi
MaxPsi == 5100

(***************************************************************************)
(* Small helpers                                                           *)
(***************************************************************************)
Min2(a, b) == IF a <= b THEN a ELSE b

Max2(a, b) == IF a >= b THEN a ELSE b

SetMin(S) == CHOOSE x \in S : \A y \in S : x <= y

SetMax(S) == CHOOSE x \in S : \A y \in S : x >= y

RECURSIVE SeqSum(_)
SeqSum(s) == IF s = <<>> THEN 0 ELSE Head(s) + SeqSum(Tail(s))

SeqRange(s) == {s[i] : i \in 1..Len(s)}

(***************************************************************************)
(* Input images: h x w x 3 arrays of 8-bit samples, pixels kept row-major  *)
(* in px (index (r-1)*w + c), as image.reshape(-1, 3) lays them out.       *)
(* The families below are a background colour with painted pixels.         *)
(***************************************************************************)
Palette == {<<0, 0, 0>>, <<100, 100, 100>>, <<130, 130, 130>>, <<40, 100, 255>>}

NumPixels(img) == img.h * img.w

Painted(h, w, bg, p1, c1, p2, c2) ==
    [h |-> h, w |-> w,
     px |-> [i \in 1..(h * w) |-> IF i = p2 THEN c2 ELSE IF i = p1 THEN c1 ELSE bg]]

Images(maxH, maxW) ==
    UNION {
      UNION {
        {Painted(h, w, bg, p1, c1, p2, c2) :
            bg \in Palette, c1 \in Palette, c2 \in Palette, p2 \in p1..(h * w)} :
        p1 \in 1..(h * w)} :
      h \in 1..maxH, w \in 1..maxW}

\* one-row images: a background colour with one painted pixel
Strips(maxW) ==
    UNION {{Painted(1, w, bg, p1, c1, p1, c1) :
               bg \in Palette, c1 \in Palette, p1 \in 1..w} : w \in 1..maxW}

\* heights and widths of the images given to preprocessing
Dims == {0, 1, 5, 100, 537, 640, 641, 716, 1000, 1077, 1280, 2000, 10000}

\* no image held / no source given
NoImage == [h |-> 0, w |-> 0, px |-> <<>>]

NoSource == [decodable |-> FALSE, h |-> 0, w |-> 0]

(***************************************************************************)
(* 1. preprocessing: resize_image                                          *)
(*                                                                         *)
(* scale = max_dim / max(h, w) and int(d * scale) are float64 operations.  *)
(* They are computed here exactly, with small integers.  For m = max(h, w) *)
(* above max_dim, scale lies in [2^-j, 2^(1-j)) and is the multiple of     *)
(* 2^-k, k = 52 + j, nearest to max_dim / m.  With r the remainder of      *)
(* max_dim * 2^k by m, scale * m = max_dim - e * 2^-k, where e = r when    *)
(* the quotient was rounded down and e = r - m when it was rounded up.     *)
(***************************************************************************)
MAX_DIMENSION == 640

RECURSIVE Pow2(_)
Pow2(n) == IF n = 0 THEN 1 ELSE 2 * Pow2(n - 1)

RECURSIVE scale_exponent(_, _, _)
\* the least j >= start with max_dim * 2^j >= m
scale_exponent(max_dim, m, start) ==
    IF max_dim * Pow2(start) >= m THEN start
    ELSE scale_exponent(max_dim, m, start + 1)

RECURSIVE ShiftMod(_, _, _)
\* (a * 2^k) mod m, by k doublings
ShiftMod(a, k, m) == IF k = 0 THEN a % m ELSE (2 * ShiftMod(a, k - 1, m)) % m

\* e of the header: the rounding error of scale, to the nearest with a tie
\* to the even quotient
scale_error(max_dim, m) ==
    LET k == 52 + scale_exponent(max_dim, m, 1)
        r == ShiftMod(max_dim, k, m)
        quotient_odd == ShiftMod(max_dim, k, 2 * m) >= m
    IN IF 2 * r < m THEN r
       ELSE IF 2 * r > m THEN r - m
       ELSE IF quotient_odd THEN r - m ELSE r

RECURSIVE FloorLog2(_)
FloorLog2(q) == IF q < 2 THEN 0 ELSE 1 + FloorLog2(q \div 2)

\* int(d * scale) for 0 <= d <= m, max_dim < m.  When max_dim * d / m is not
\* an integer, the errors (below 2^-36 here) cannot carry the product over
\* an integer, and the result is the floor.  When it is an integer q, the
\* float product is q - d * e / (m * 2^k): it rounds back to q unless it
\* lies more than half a float spacing below q, and then int() gives q - 1.
\* The spacing below q is 2^(e2 - 52), and half of that when q = 2^e2.
new_dim(d, m, max_dim) ==
    LET j == scale_exponent(max_dim, m, 1)
        e == scale_error(max_dim, m)
        q == (max_dim * d) \div m
        f == (max_dim * d) % m
        e2 == FloorLog2(q)
        lim == IF q = Pow2(e2) THEN m * Pow2(e2 + j - 1) ELSE m * Pow2(e2 + j)
    IN IF f # 0 \/ q = 0 \/ e <= 0 THEN q
       ELSE IF 2 * d * e > lim THEN q - 1 ELSE q

\* resize_image(image, max_dim): the error raised, or the image returned.
\* A copy keeps the pixels; the pixels of a resampled image (INTER_AREA) are
\* not modelled and are left empty.  cv2.resize raises for an empty source
\* and for a target size with a zero.
resize_image(img, max_dim) ==
    LET m == Max2(img.h, img.w) IN
    IF m = 0 THEN [error |-> "ZeroDivisionError", image |-> NoImage]
    ELSE IF max_dim >= m THEN [error |-> "none", image |-> img]
    ELSE LET new_w == new_dim(img.w, m, max_dim)
             new_h == new_dim(img.h, m, max_dim)
         IN IF new_w = 0 \/ new_h = 0
            THEN [error |-> "cv2.error", image |-> NoImage]
            ELSE [error |-> "none", image |-> [h |-> new_h, w |-> new_w, px |-> <<>>]]

\* a call of resize_image with the default max_dim
ResizeImage ==
    /\ pc = "resize"
    /\ LET res == resize_image(image, MAX_DIMENSION) IN
         /\ resized' = res.image
         /\ error' = res.error
         /\ pc' = IF res.error = "none" THEN "resized" ELSE "failed"
    /\ UNCHANGED <<image, patch_size, top_percent, omega, cast_mode, dark_channel,
                   candidates, atmospheric_light, transmission_map, haze_map, features,
                   files, source, stages, vector, callers, cached_model, init_log>>
    /\ UNCHANGED restVars

(***************************************************************************)
(* 1. preprocessing: load_image, preprocess                                *)
(***************************************************************************)
\* faulty variant: the None of cv2.imread handed on without a check
load_image_unchecked(src) ==
    [error |-> "none",
     image |-> IF src.decodable THEN [h |-> src.h, w |-> src.w, px |-> <<>>] ELSE NoImage]

\* load_image(image_path): cv2.imread gives None for a file it cannot decode
\* and the function raises FileNotFoundError; the pixels of a decoded image
\* are not modelled here.
load_image(src) ==
    IF src.decodable
    THEN [error |-> "none", image |-> [h |-> src.h, w |-> src.w, px |-> <<>>]]
    ELSE [error |-> "FileNotFoundError", image |-> NoImage]

\* preprocess(image_path): load, resize, blur, RGB copies.  The blur and the
\* colour conversion keep the shape; an error of a step ends the call.
preprocess(src) ==
    LET raw == load_image(src) IN
    IF raw.error # "none" THEN raw
    ELSE resize_image(raw.image, MAX_DIMENSION)

(***************************************************************************)
(* 2a. compute_dark_channel                                                *)
(***************************************************************************)
\* np.min(img, axis=2): per-pixel minimum of the three channels
channel_min(px) == [i \in 1..Len(px) |-> Min2(px[i][1], Min2(px[i][2], px[i][3]))]

\* cv2.getStructuringElement(MORPH_RECT, (P, P)) asserts that the default
\* anchor (P/2, P/2) lies inside the kernel rectangle: it raises for P < 1.
KernelOk(P) == P >= 1

\* cv2.erode(field, kernel): anchor P \div 2, kernel element j covers the
\* source offset j - anchor; the border is the constant +infinity, so only
\* in-image pixels take part in the minimum.
ErodeWindow(h, w, P, r, c) ==
    LET anchor == P \div 2 IN
    {<<r2, c2>> \in (1..h) \X (1..w) :
        /\ r2 - r >= 0 - anchor /\ r2 - r <= P - 1 - anchor
        /\ c2 - c >= 0 - anchor /\ c2 - c <= P - 1 - anchor}

\* faulty variant: the border padded with the constant 0 instead of +infinity
erode_zero_border(field, h, w, P) ==
    [i \in 1..(h * w) |->
        LET r == ((i - 1) \div w) + 1
            c == ((i - 1) % w) + 1
            inside == {field[(q[1] - 1) * w + q[2]] : q \in ErodeWindow(h, w, P, r, c)}
            cut == \/ r - P \div 2 < 1 \/ r - P \div 2 + P - 1 > h
                   \/ c - P \div 2 < 1 \/ c - P \div 2 + P - 1 > w
        IN SetMin(inside \cup (IF cut THEN {0} ELSE {}))]

\* faulty variant: no border at all, only the windows that lie inside the
\* image give a value
erode_valid(field, h, w, P) ==
    LET vh == Max2(h - P + 1, 0)
        vw == Max2(w - P + 1, 0)
    IN [i \in 1..(vh * vw) |->
          LET r == ((i - 1) \div vw) + 1
              c == ((i - 1) % vw) + 1
          IN SetMin({field[(r + dr - 1) * w + c + dc] : dr \in 0..(P - 1), dc \in 0..(P - 1)})]

\* faulty variant: the maximum of the window (a dilation) instead of the minimum
erode_max(field, h, w, P) ==
    [i \in 1..(h * w) |->
        LET r == ((i - 1) \div w) + 1
            c == ((i - 1) % w) + 1
        IN SetMax({field[(q[1] - 1) * w + q[2]] : q \in ErodeWindow(h, w, P, r, c)})]

erode(field, h, w, P) ==
    [i \in 1..(h * w) |->
        LET r == ((i - 1) \div w) + 1
            c == ((i - 1) % w) + 1
        IN SetMin({field[(q[1] - 1) * w + q[2]] : q \in ErodeWindow(h, w, P, r, c)})]

compute_dark_channel(px, h, w, P) == erode(channel_min(px), h, w, P)

\* the call: an error of the kernel construction, or the field
ComputeDarkChannel ==
    /\ pc = "start"
    /\ IF KernelOk(patch_size)
       THEN /\ dark_channel' = compute_dark_channel(image.px, image.h, image.w, patch_size)
            /\ pc' = "dark"
            /\ error' = error
       ELSE /\ dark_channel' = dark_channel
            /\ pc' = "failed"
            /\ error' = "cv2.error"
    /\ UNCHANGED <<image, patch_size, top_percent, omega, cast_mode, candidates,
                   atmospheric_light, transmission_map, haze_map, features, files>>
    /\ UNCHANGED extVars
    /\ UNCHANGED restVars

\* np.min(img, axis=2) needs an array of three dimensions: the field that
\* compute_dark_channel returns has two and raises numpy's AxisError
AxisOk(ndim) == ndim >= 3

\* a field given the shape of an image: the same plane in each of the three
\* channels
stacked(field) == [i \in 1..Len(field) |-> <<field[i], field[i], field[i]>>]

\* compute_dark_channel called on the field of a first call, with the same
\* patch size: on the field itself (two dimensions) or on the field stacked
\* into three channels.  The call divides its input by 255 again, so a
\* sample of second_pass counts 1/255 of the unit of dark_channel.
ComputeDarkChannelAgain ==
    /\ pc = "dark"
    /\ \E ndim \in {2, 3} :
         IF AxisOk(ndim)
         THEN /\ second_pass' = compute_dark_channel(stacked(dark_channel),
                                                     image.h, image.w, patch_size)
              /\ pc' = "dark2"
              /\ error' = error
         ELSE /\ second_pass' = second_pass
              /\ pc' = "failed"
              /\ error' = "AxisError"
    /\ UNCHANGED <<hazeVars, files, extVars>>
    /\ UNCHANGED <<model_output, psi, category, forecastVars, apiVars>>

(***************************************************************************)
(* 2b. estimate_atmospheric_light                                          *)
(***************************************************************************)
\* max(int(num_pixels * top_percent), 1)
num_top(n, tp) == Max2((n * tp[1]) \div tp[2], 1)

RECURSIVE KSubsets(_, _)
KSubsets(S, k) ==
    IF k = 0 THEN {{}}
    ELSE IF Cardinality(S) < k THEN {}
    ELSE LET x == CHOOSE y \in S : TRUE
         IN {T \cup {x} : T \in KSubsets(S \ {x}, k - 1)} \cup KSubsets(S \ {x}, k)

\* the slice [-k:] of a sequence of length n keeps min(k, n) elements, and
\* all n of them when k = 0
SliceLen(n, k) == IF k = 0 THEN n ELSE Min2(k, n)

\* faulty variant: the slice [:k] of the ascending argsort: the smallest values
CandidateSetsLowest(dc, k) ==
    LET n    == Len(dc)
        kk   == SliceLen(n, k)
        thr  == CHOOSE v \in SeqRange(dc) :
                   /\ Cardinality({i \in 1..n : dc[i] < v}) < kk
                   /\ Cardinality({i \in 1..n : dc[i] <= v}) >= kk
        below == {i \in 1..n : dc[i] < thr}
        ties  == {i \in 1..n : dc[i] = thr}
    IN {below \cup T : T \in KSubsets(ties, kk - Cardinality(below))}

\* np.argsort(flat_dc)[-num_top:]: the index sets the slice can hold.  The
\* order argsort gives to equal values is not fixed by its default sort, so
\* every choice among the pixels tied at the threshold value is an outcome.
CandidateSets(dc, k) ==
    LET n    == Len(dc)
        kk   == SliceLen(n, k)
        thr  == CHOOSE v \in SeqRange(dc) :
                   /\ Cardinality({i \in 1..n : dc[i] > v}) < kk
                   /\ Cardinality({i \in 1..n : dc[i] >= v}) >= kk
        above == {i \in 1..n : dc[i] > thr}
        ties  == {i \in 1..n : dc[i] = thr}
    IN {above \cup T : T \in KSubsets(ties, kk - Cardinality(above))}

\* np.sum(flat_img[indices], axis=1)
Intensity(p) == p[1] + p[2] + p[3]

\* faulty variant: argmin instead of argmax
BestPixelsDimmest(px, S) == {i \in S : \A j \in S : Intensity(px[i]) <= Intensity(px[j])}

\* indices[np.argmax(intensities)]: a candidate of maximal intensity (the
\* first one in the order of indices, which is any of them)
BestPixels(px, S) == {i \in S : \A j \in S : Intensity(px[i]) >= Intensity(px[j])}

EstimateAtmosphericLight ==
    /\ pc = "dark"
    /\ \E S \in CandidateSets(dark_channel, num_top(NumPixels(image), top_percent)) :
         \E best \in BestPixels(image.px, S) :
            /\ candidates' = S
            /\ atmospheric_light' = image.px[best]
    /\ pc' = "light"
    /\ UNCHANGED <<image, patch_size, top_percent, omega, cast_mode, dark_channel,
                   transmission_map, haze_map, features, error, files>>
    /\ UNCHANGED extVars
    /\ UNCHANGED restVars

(***************************************************************************)
(* 2c. compute_transmission_map                                            *)
(***************************************************************************)
\* 2^31 - 1
INT32_MAX == 2147483647

\* the float -> uint8 conversion of astype(np.uint8) for a value v >= 0 that
\* is already truncated to an integer: a value that fits int32 keeps its low
\* byte; a value beyond int32 is outside what the conversion defines, and
\* the result is the low byte of what the build's conversion instruction
\* leaves: 0x80000000 on x86-64, the saturated 0x7FFFFFFF on aarch64.
AsUint8(v, beyond, mode) ==
    IF beyond THEN (IF mode = "x86" THEN 0 ELSE 255) ELSE v % 256

\* ((img / (atmospheric_light + 1e-8)) * 255).astype(np.uint8) for one
\* sample p and light component a (both 8-bit values standing for p/255,
\* a/255).  The quotient is 255p / (a + 2.55e-6): just below 255p/a, so its
\* integer part is floor(255p/a), and one less when a divides 255p.  With
\* a = 0 the quotient is p * 10^8, beyond int32 from p = 22 on (the samples
\* 1..21, whose quotient fits int32, are taken at their exact value p * 10^8;
\* no image of the specifications below holds such a sample).
NormalisedByte(p, a, mode) ==
    IF p = 0 THEN 0
    ELSE IF a = 0
         THEN IF p > INT32_MAX \div 100000000
              THEN AsUint8(0, TRUE, mode)
              ELSE AsUint8(p * 100000000, FALSE, mode)
    ELSE LET q == (255 * p) \div a
             r == (255 * p) % a
         IN AsUint8(IF r = 0 THEN q - 1 ELSE q, FALSE, mode)

\* the uint8 image handed to compute_dark_channel (.clip(0, 255) on uint8
\* changes nothing)
normalised(px, A, mode) ==
    [i \in 1..Len(px) |-> [ch \in 1..3 |-> NormalisedByte(px[i][ch], A[ch], mode)]]

\* faulty variant: no clamp
clip_none(x, lo, hi) == x

\* np.clip
clip(x, lo, hi) == IF x < lo THEN lo ELSE IF x > hi THEN hi ELSE x

\* transmission = clip(1 - omega * dc_norm, 0.01, 1.0), in units of 1/FDen
compute_transmission_map(px, h, w, A, P, om, mode) ==
    LET dc_norm == compute_dark_channel(normalised(px, A, mode), h, w, P)
    IN [i \in 1..(h * w) |-> clip(FDen - om * dc_norm[i], FDen \div 100, FDen)]

ComputeTransmissionMap ==
    /\ pc = "light"
    /\ IF KernelOk(patch_size)
       THEN /\ transmission_map' = compute_transmission_map(image.px, image.h, image.w,
                                       atmospheric_light, patch_size, omega, cast_mode)
            /\ pc' = "trans"
            /\ error' = error
       ELSE /\ transmission_map' = transmission_map
            /\ pc' = "failed"
            /\ error' = "cv2.error"
    /\ UNCHANGED <<image, patch_size, top_percent, omega, cast_mode, dark_channel,
                   candidates, atmospheric_light, haze_map, features, files>>
    /\ UNCHANGED extVars
    /\ UNCHANGED restVars

(***************************************************************************)
(* 2d. compute_haze_map, 2e. visualise_haze_map                            *)
(***************************************************************************)
\* faulty variant: the transmission returned as the haze
compute_haze_map_same(transmission) == transmission

\* 1.0 - transmission
compute_haze_map(transmission) ==
    [i \in 1..Len(transmission) |-> FDen - transmission[i]]

\* faulty variant: the haze map also saved by the function that computes it
ComputeHazeMapSaving ==
    /\ pc = "trans"
    /\ haze_map' = compute_haze_map(transmission_map)
    /\ files' = files \cup {"output/haze_map.npy"}
    /\ pc' = "haze"
    /\ UNCHANGED <<image, patch_size, top_percent, omega, cast_mode, dark_channel,
                   candidates, atmospheric_light, transmission_map, features, error>>
    /\ UNCHANGED extVars
    /\ UNCHANGED restVars

ComputeHazeMap ==
    /\ pc = "trans"
    /\ haze_map' = compute_haze_map(transmission_map)
    /\ pc' = "haze"
    /\ UNCHANGED <<image, patch_size, top_percent, omega, cast_mode, dark_channel,
                   candidates, atmospheric_light, transmission_map, features, error, files>>
    /\ UNCHANGED extVars
    /\ UNCHANGED restVars

\* fig.savefig(output_path): the rendering is written to output/haze_map.png
\* (the colour-mapped array it returns is not modelled)
VisualiseHazeMap ==
    /\ pc = "haze"
    /\ files' = files \cup {"output/haze_map.png"}
    /\ pc' = "visualised"
    /\ UNCHANGED <<image, patch_size, top_percent, omega, cast_mode, dark_channel,
                   candidates, atmospheric_light, transmission_map, haze_map, features,
                   error>>
    /\ UNCHANGED extVars
    /\ UNCHANGED restVars

(***************************************************************************)
(* 3. extract_haze_features                                                *)
(***************************************************************************)
\* round(): a / b (a >= 0, b > 0) to the nearest integer, a tie to the even
\* one.  (No value of the fields modelled here lies on a tie unless the
\* field has a multiple of 8 elements.)
RoundDiv(a, b) ==
    LET q == a \div b
        r == a % b
    IN IF 2 * r < b THEN q
       ELSE IF 2 * r > b THEN q + 1
       ELSE IF q % 2 = 0 THEN q ELSE q + 1

\* round(num / (den * FDen), 4) in units of 10^-4: 10^4 / FDen = 100 / 51
Round4(num, den) == RoundDiv(num * 100, den * 51)

RECURSIVE SumSqDiff(_)
\* the sum of (a_i - a_j)^2 over the pairs i < j of a sequence
SumSqDiff(s) ==
    IF Len(s) < 2 THEN 0
    ELSE LET a == Head(s)
             t == Tail(s)
         IN SeqSum([j \in 1..Len(t) |-> (a - t[j]) * (a - t[j])]) + SumSqDiff(t)

\* faulty variant: the mean of the squares, without taking the mean off
Var6_mean_square(s) ==
    LET n == Len(s)
        d == 2601 * n
        x == SeqSum([i \in 1..n |-> s[i] * s[i]])
    IN 100 * (x \div d) + RoundDiv(100 * (x % d), d)

\* round(np.var(field), 6) in units of 10^-6.  np.var is the mean of the
\* squared deviations from the mean, which is SumSqDiff / n^2; in units of
\* 10^-6 that is SumSqDiff * 10^6 / (n^2 * FDen^2) = SumSqDiff * 100 /
\* (2601 * n^2), divided in two steps to stay within 32 bits.
Var6(s) ==
    LET n == Len(s)
        d == 2601 * n * n
        x == SumSqDiff(s)
    IN 100 * (x \div d) + RoundDiv(100 * (x % d), d)

\* faulty variant: contrast taken as max - mean
extract_haze_features_mean_contrast(field) ==
    LET n == Len(field) IN
    [mean_haze     |-> Round4(SeqSum(field), n),
     haze_variance |-> Var6(field),
     max_haze      |-> Round4(SetMax(SeqRange(field)), 1),
     contrast      |-> Round4(n * SetMax(SeqRange(field)) - SeqSum(field), n)]

\* faulty variant: the first element taken as the maximum
extract_haze_features_first_max(field) ==
    LET n == Len(field) IN
    [mean_haze     |-> Round4(SeqSum(field), n),
     haze_variance |-> Var6(field),
     max_haze      |-> Round4(field[1], 1),
     contrast      |-> Round4(SetMax(SeqRange(field)) - SetMin(SeqRange(field)), 1)]

extract_haze_features(field) ==
    LET n == Len(field) IN
    [mean_haze     |-> Round4(SeqSum(field), n),
     haze_variance |-> Var6(field),
     max_haze      |-> Round4(SetMax(SeqRange(field)), 1),
     contrast      |-> Round4(SetMax(SeqRange(field)) - SetMin(SeqRange(field)), 1)]

\* the exception of the reductions: on a zero-size field np.mean and np.var
\* warn and give nan, and np.max, which has no identity, raises ValueError
reduction_error(field) == IF Len(field) = 0 THEN "ValueError" ELSE "none"

\* the call: the error of np.max, or the dictionary
ExtractHazeFeatures ==
    /\ pc = "visualised"
    /\ IF reduction_error(haze_map) = "none"
       THEN /\ features' = extract_haze_features(haze_map)
            /\ pc' = "features"
            /\ error' = error
       ELSE /\ features' = features
            /\ pc' = "failed"
            /\ error' = reduction_error(haze_map)
    /\ UNCHANGED <<image, patch_size, top_percent, omega, cast_mode, dark_channel,
                   candidates, atmospheric_light, transmission_map, haze_map, files>>
    /\ UNCHANGED extVars
    /\ UNCHANGED restVars

(***************************************************************************)
(* 3. features_to_vector, and the columns the predictor is trained on      *)
(***************************************************************************)
\* faulty variant: max_haze and haze_variance in each other's place
features_to_vector_swapped(f) == <<f.mean_haze, f.max_haze, f.haze_variance, f.contrast>>

\* np.array([features["mean_haze"], features["haze_variance"],
\*           features["max_haze"], features["contrast"]])
\* (each element in the unit the feature is held in: 10^-4, 10^-6, 10^-4, 10^-4)
features_to_vector(f) == <<f.mean_haze, f.haze_variance, f.max_haze, f.contrast>>

\* generate_synthetic_data: X = np.column_stack([mean_haze, haze_variance,
\* max_haze, contrast]), the matrix train_model fits the predictor on;
\* predict_psi hands the vector on as the single row of its input
training_columns == <<"mean_haze", "haze_variance", "max_haze", "contrast">>

\* feature_vec = features_to_vector(features)
FeaturesToVector ==
    /\ pc = "features"
    /\ vector' = features_to_vector(features)
    /\ pc' = "vector"
    /\ UNCHANGED <<image, patch_size, top_percent, omega, cast_mode, dark_channel,
                   candidates, atmospheric_light, transmission_map, haze_map, features,
                   error, files, source, resized, stages, callers, cached_model,
                   init_log>>
    /\ UNCHANGED restVars

(***************************************************************************)
(* run_pipeline, stage by stage.  stages lists the calls made so far, pc   *)
(* is the position in the function, and an exception of a stage leaves the *)
(* function at once (there is no try in run_pipeline): pc = "failed" with  *)
(* the exception in error.  The numeric content of the stages is the       *)
(* subject of the other specifications; here a stage is its effect on the  *)
(* files and on the control flow.                                          *)
(***************************************************************************)
PSI_MODEL_PATH == "models/psi_model.pkl"

\* os.makedirs("output", exist_ok=True)
MakeOutputDir ==
    /\ pc = "run"
    /\ stages' = Append(stages, "makedirs")
    /\ files' = files \cup {"output"}
    /\ pc' = "makedirs"
    /\ UNCHANGED <<image, patch_size, top_percent, omega, cast_mode, dark_channel,
                   candidates, atmospheric_light, transmission_map, haze_map, features,
                   error, source, resized, vector, callers, cached_model, init_log>>
    /\ UNCHANGED restVars

\* preprocessed = preprocess(image_path)
Preprocess ==
    /\ pc = "makedirs"
    /\ stages' = Append(stages, "preprocess")
    /\ LET res == preprocess(source) IN
         /\ resized' = res.image
         /\ image' = res.image
         /\ error' = res.error
         /\ pc' = IF res.error = "none" THEN "preprocessed" ELSE "failed"
    /\ UNCHANGED <<patch_size, top_percent, omega, cast_mode, dark_channel,
                   candidates, atmospheric_light, transmission_map, haze_map, features,
                   files, source, vector, callers, cached_model, init_log>>
    /\ UNCHANGED restVars

\* haze_result = estimate_haze(...): its visualisation writes haze_map.png
EstimateHaze ==
    /\ pc = "preprocessed"
    /\ stages' = Append(stages, "estimate_haze")
    /\ files' = files \cup {"output/haze_map.png"}
    /\ pc' = "estimated"
    /\ UNCHANGED <<image, patch_size, top_percent, omega, cast_mode, dark_channel,
                   candidates, atmospheric_light, transmission_map, haze_map, features,
                   error, source, resized, vector, callers, cached_model, init_log>>
    /\ UNCHANGED restVars

\* features = extract_haze_features(...); feature_vec = features_to_vector(...)
ExtractFeatures ==
    /\ pc = "estimated"
    /\ stages' = Append(stages, "extract_haze_features")
    /\ pc' = "extracted"
    /\ UNCHANGED <<image, patch_size, top_percent, omega, cast_mode, dark_channel,
                   candidates, atmospheric_light, transmission_map, haze_map, features,
                   error, files, source, resized, vector, callers, cached_model,
                   init_log>>
    /\ UNCHANGED restVars

\* model = load_model(): the saved model is read, or a new one is trained
\* and saved (the pipeline is caller 0 of the predictor)
LoadModel ==
    /\ pc = "extracted"
    /\ stages' = Append(stages, "load_model")
    /\ IF PSI_MODEL_PATH \in files
       THEN /\ init_log' = init_log \cup {<<0, "load">>}
            /\ files' = files
       ELSE /\ init_log' = init_log \cup {<<0, "train">>}
            /\ files' = files \cup {PSI_MODEL_PATH}
    /\ pc' = "model"
    /\ UNCHANGED <<image, patch_size, top_percent, omega, cast_mode, dark_channel,
                   candidates, atmospheric_light, transmission_map, haze_map, features,
                   error, source, resized, vector, callers, cached_model>>
    /\ UNCHANGED restVars

\* what model.predict(X)[0] can give, in quarters of a PSI point: the forest
\* is fitted outside the model, so its output is any number; these lie
\* below, on, next to and above the clip limits and the category breakpoints
ModelOutputs ==
    {0 - 400, 0 - 1, 0, 1, 2, 3, 199, 200, 201, 202, 399, 400, 401, 799, 800,
     801, 1199, 1200, 1201, 1999, 2000, 2001, 2002, 2400}

\* faulty variant: the model output rounded without the clip to [0, 500]
predict_psi_unclipped(output) ==
    IF output >= 0 THEN RoundDiv(output * 10, 4) ELSE 0 - RoundDiv((0 - output) * 10, 4)

\* round(float(np.clip(psi, 0, 500)), 1): the output in quarters, the result
\* in tenths; a quarter is a binary fraction, so round() sees the exact
\* value and breaks the ties x.x5 to the even tenth
predict_psi(output) == RoundDiv(Min2(Max2(output, 0), 500 * 4) * 10, 4)

\* faulty variant: the breakpoints taken as strict bounds
psi_category_strict(p) ==
    IF p < 500 THEN "Good"
    ELSE IF p < 1000 THEN "Moderate"
    ELSE IF p < 2000 THEN "Unhealthy"
    ELSE IF p < 3000 THEN "Very Unhealthy"
    ELSE "Hazardous"

\* the chain of comparisons of psi_category, on a PSI in tenths
psi_category(p) ==
    IF p <= 500 THEN "Good"
    ELSE IF p <= 1000 THEN "Moderate"
    ELSE IF p <= 2000 THEN "Unhealthy"
    ELSE IF p <= 3000 THEN "Very Unhealthy"
    ELSE "Hazardous"

\* psi = predict_psi(model, feature_vec); category = psi_category(psi)
PredictPsi ==
    /\ pc = "model"
    /\ stages' = Append(stages, "predict_psi")
    /\ \E output \in ModelOutputs :
         /\ model_output' = output
         /\ psi' = predict_psi(output)
         /\ category' = psi_category(predict_psi(output))
    /\ pc' = "predicted"
    /\ UNCHANGED <<image, patch_size, top_percent, omega, cast_mode, dark_channel,
                   candidates, atmospheric_light, transmission_map, haze_map, features,
                   error, files, source, resized, vector, callers, cached_model,
                   init_log>>
    /\ UNCHANGED <<second_pass, forecastVars, apiVars>>

\* psi_category called on its own, on any PSI
PsiCategory ==
    /\ pc = "psi"
    /\ category' = psi_category(psi)
    /\ pc' = "category"
    /\ UNCHANGED <<hazeVars, error, files, extVars>>
    /\ UNCHANGED <<second_pass, model_output, psi, forecastVars, apiVars>>

\* result = assemble_result(...): save_summary_image writes the summary
AssembleResult ==
    /\ pc = "predicted"
    /\ stages' = Append(stages, "assemble_result")
    /\ files' = files \cup {"output/result_summary.png"}
    /\ pc' = "done"
    /\ UNCHANGED <<image, patch_size, top_percent, omega, cast_mode, dark_channel,
                   candidates, atmospheric_light, transmission_map, haze_map, features,
                   error, source, resized, vector, callers, cached_model, init_log>>
    /\ UNCHANGED restVars

(***************************************************************************)
(* The predictors under concurrent callers.  callers[c] is the function a  *)
(* caller runs and its position in it; a caller can be suspended between   *)
(* any two steps.  init_log holds <<c, "load">> or <<c, "train">> for each *)
(* initialisation a caller has carried out; cached_model is the module     *)
(* variable _model of the forecasting API.                                 *)
(***************************************************************************)
AQI_MODEL_PATH == "models/aqi_prediction_model.pkl"

At(c, fn, at) == callers[c].fn = fn /\ callers[c].at = at

Goto(c, at) == [callers EXCEPT ![c].at = at]

\* load_model: if os.path.exists(MODEL_PATH)
LoadModelExists(c) ==
    /\ At(c, "load_model", "call")
    /\ callers' = Goto(c, IF PSI_MODEL_PATH \in files THEN "open" ELSE "train")
    /\ UNCHANGED <<image, patch_size, top_percent, omega, cast_mode, pc, dark_channel,
                   candidates, atmospheric_light, transmission_map, haze_map, features,
                   error, files, source, resized, stages, vector, cached_model,
                   init_log>>
    /\ UNCHANGED restVars

\* load_model: model = pickle.load(f); return model
LoadModelLoad(c) ==
    /\ At(c, "load_model", "open")
    /\ init_log' = init_log \cup {<<c, "load">>}
    /\ callers' = Goto(c, "done")
    /\ UNCHANGED <<image, patch_size, top_percent, omega, cast_mode, pc, dark_channel,
                   candidates, atmospheric_light, transmission_map, haze_map, features,
                   error, files, source, resized, stages, vector, cached_model>>
    /\ UNCHANGED restVars

\* load_model: return train_model(), which fits a model and saves it
LoadModelTrain(c) ==
    /\ At(c, "load_model", "train")
    /\ init_log' = init_log \cup {<<c, "train">>}
    /\ files' = files \cup {PSI_MODEL_PATH}
    /\ callers' = Goto(c, "done")
    /\ UNCHANGED <<image, patch_size, top_percent, omega, cast_mode, pc, dark_channel,
                   candidates, atmospheric_light, transmission_map, haze_map, features,
                   error, source, resized, stages, vector, cached_model>>
    /\ UNCHANGED restVars

\* load_prediction_model: if _model is not None: return _model
CheckCache(c) ==
    /\ At(c, "load_prediction_model", "call")
    /\ callers' = Goto(c, IF cached_model # "None" THEN "done" ELSE "missed")
    /\ UNCHANGED <<image, patch_size, top_percent, omega, cast_mode, pc, dark_channel,
                   candidates, atmospheric_light, transmission_map, haze_map, features,
                   error, files, source, resized, stages, vector, cached_model,
                   init_log>>
    /\ UNCHANGED restVars

\* load_prediction_model: if not os.path.exists(MODEL_PATH): raise ..., which
\* the except clause of the function turns into return None
PredictionModelExists(c) ==
    /\ At(c, "load_prediction_model", "missed")
    /\ callers' = Goto(c, IF AQI_MODEL_PATH \in files THEN "open" ELSE "done")
    /\ UNCHANGED <<image, patch_size, top_percent, omega, cast_mode, pc, dark_channel,
                   candidates, atmospheric_light, transmission_map, haze_map, features,
                   error, files, source, resized, stages, vector, cached_model,
                   init_log>>
    /\ UNCHANGED restVars

\* load_prediction_model: _model = pickle.load(f); return _model
PredictionModelLoad(c) ==
    /\ At(c, "load_prediction_model", "open")
    /\ cached_model' = "model"
    /\ init_log' = init_log \cup {<<c, "load">>}
    /\ callers' = Goto(c, "done")
    /\ UNCHANGED <<image, patch_size, top_percent, omega, cast_mode, pc, dark_channel,
                   candidates, atmospheric_light, transmission_map, haze_map, features,
                   error, files, source, resized, stages, vector>>
    /\ UNCHANGED restVars

(***************************************************************************)
(* The forecasting API: predict_future_aqi, the policy engine, and the     *)
(* request handlers of main.py.  AQI values are integers in tenths; the    *)
(* simulated weather, traffic and pollutant features are random numbers    *)
(* that only reach the model, whose output is any number of aqi_choices.   *)
(* Timestamps are hours, the clock of the cache is in seconds.             *)
(***************************************************************************)
DATA_PATH == "data/final_policy_decision_dataset.csv"

CACHE_SECONDS == 3600

\* load_prediction_model run to its end by one caller: the cached model, or
\* the model of the file, or None when the file is missing
prediction_model_available == cached_model # "None" \/ AQI_MODEL_PATH \in files

\* [history_values[-1]] * (24 - len(history_values)) + history_values
pad_history(h) ==
    IF Len(h) < 24
    THEN [k \in 1..(24 - Len(h)) |-> h[Len(h)]] \o h
    ELSE h

\* history_values[-k]
FromEnd(h, k) == h[Len(h) + 1 - k]

\* faulty variant: the forecast is not fed back into the history
next_history_stale(h, predicted_aqi) == h

\* history_values.append(predicted_aqi)
next_history(h, predicted_aqi) == Append(h, predicted_aqi)

\* the lag features of one step; the rolling mean of the last six values is
\* kept as their sum, in sixtieths
lag_features(h) ==
    [AQI_lag_1 |-> FromEnd(h, 1), AQI_lag_2 |-> FromEnd(h, 2),
     AQI_lag_3 |-> FromEnd(h, 3), AQI_lag_24 |-> FromEnd(h, 24),
     AQI_rolling_mean_6 |-> SeqSum(SubSeq(h, Len(h) - 5, Len(h)))]

\* the risk level of the forecast value, in tenths
risk_level_of(predicted_aqi) ==
    IF predicted_aqi > 3000 THEN "Severe"
    ELSE IF predicted_aqi > 2000 THEN "High"
    ELSE IF predicted_aqi > 1000 THEN "Moderate"
    ELSE "Low"

\* int(predicted_aqi): the whole part, towards zero
int(a) == IF a >= 0 THEN a \div 10 ELSE 0 - ((0 - a) \div 10)

EmergencyPolicies ==
    <<"Emergency pollution control activation",
      "Suspend heavy vehicle traffic immediately",
      "Temporary industrial shutdown within 5 km radius",
      "Issue public emergency health advisory">>

RestrictPolicies ==
    <<"Restrict heavy vehicle entry during peak hours",
      "Activate traffic diversion routes",
      "Promote public transport usage",
      "Issue early public health advisory">>

EncouragePolicies ==
    <<"Encourage public transport usage",
      "Monitor pollution closely",
      "Prepare traffic control readiness">>

NoPolicies == <<"No preventive action required", "Continue monitoring">>

\* the recommendations for a record, from its predicted_AQI (a whole number)
generate_future_policy_recommendations(aqi) ==
    IF aqi > 300 THEN EmergencyPolicies
    ELSE IF 200 < aqi /\ aqi <= 300 THEN RestrictPolicies
    ELSE IF 150 < aqi /\ aqi <= 200 THEN EncouragePolicies
    ELSE NoPolicies

\* apply_future_policy_engine: an empty frame as it is, else every row with
\* its recommendations
apply_future_policy_engine(predictions) ==
    [k \in 1..Len(predictions) |->
        [station_name |-> predictions[k].station_name,
         future_timestamp |-> predictions[k].future_timestamp,
         predicted_AQI |-> predictions[k].predicted_AQI,
         risk_level |-> predictions[k].risk_level,
         future_recommended_policies |->
             generate_future_policy_recommendations(predictions[k].predicted_AQI)]]

\* predict_future_aqi, up to its loop over the stations: without a model it
\* returns an empty frame
PredictFutureAqi ==
    /\ pc = "forecast"
    /\ future_predictions' = <<>>
    /\ model_inputs' = <<>>
    /\ IF prediction_model_available
       THEN /\ cached_model' = "model"
            /\ init_log' = IF cached_model = "None"
                           THEN init_log \cup {<<0, "load">>} ELSE init_log
            /\ stations' = data.names
            /\ pc' = "station"
       ELSE /\ cached_model' = cached_model
            /\ init_log' = init_log
            /\ stations' = <<>>
            /\ pc' = "forecast_done"
    /\ UNCHANGED <<hazeVars, error, files, source, resized, stages, vector, callers>>
    /\ UNCHANGED <<psiVars, model, data, aqi_choices, hours_ahead, station,
                   history_values, step, apiVars>>

\* for station in unique_stations: the history buffer of the next station,
\* or the return of the frame after the last one
NextStation ==
    /\ pc = "station"
    /\ IF stations # <<>>
       THEN /\ station' = Head(stations)
            /\ stations' = Tail(stations)
            /\ history_values' =
                  pad_history(data.AQI[CHOOSE k \in 1..Len(data.names) :
                                          data.names[k] = Head(stations)])
            /\ step' = 1
            /\ pc' = "hour"
       ELSE /\ UNCHANGED <<station, stations, history_values, step>>
            /\ pc' = "forecast_done"
    /\ UNCHANGED <<hazeVars, error, files, extVars>>
    /\ UNCHANGED <<psiVars, model, data, aqi_choices, hours_ahead,
                   future_predictions, model_inputs, apiVars>>

\* one pass of for i in range(1, hours_ahead + 1): the lags from the history,
\* the forecast (the model's output with its noise, not below 0, or lag_1
\* when model.predict raises), the history extended, the record stored
PredictHour ==
    /\ pc = "hour"
    /\ IF step <= hours_ahead
       THEN \E raised \in BOOLEAN : \E output \in aqi_choices :
              LET lags == lag_features(history_values)
                  predicted_aqi == IF raised THEN lags.AQI_lag_1 ELSE Max2(0, output)
              IN /\ model_inputs' = Append(model_inputs,
                        [station_name |-> station, step |-> step, lags |-> lags,
                         history_length |-> Len(history_values),
                         predicted_aqi |-> predicted_aqi])
                 /\ history_values' = next_history(history_values, predicted_aqi)
                 /\ future_predictions' = Append(future_predictions,
                        [station_name |-> station,
                         future_timestamp |-> data.latest + step,
                         predicted_AQI |-> int(predicted_aqi),
                         risk_level |-> risk_level_of(predicted_aqi)])
                 /\ step' = step + 1
                 /\ pc' = "hour"
       ELSE /\ UNCHANGED <<model_inputs, history_values, future_predictions, step>>
            /\ pc' = "station"
    /\ UNCHANGED <<hazeVars, error, files, extVars>>
    /\ UNCHANGED <<psiVars, model, data, aqi_choices, hours_ahead, stations, station,
                   apiVars>>

\* apply_future_policy_engine on the frame of predict_future_aqi, called
\* outside a request
ApplyFuturePolicyEngine ==
    /\ pc = "forecast_done"
    /\ request.path = "none"
    /\ future_predictions' = apply_future_policy_engine(future_predictions)
    /\ pc' = "policy_done"
    /\ UNCHANGED <<hazeVars, error, files, extVars>>
    /\ UNCHANGED <<psiVars, model, data, aqi_choices, hours_ahead, stations, station,
                   history_values, step, model_inputs, apiVars>>

\* startup_event: the model and the dataset are loaded inside one try; a
\* missing model file leaves model None, a missing dataset leaves data None
StartupEvent ==
    /\ pc = "startup"
    /\ model' = IF prediction_model_available THEN "model" ELSE "None"
    /\ cached_model' = IF prediction_model_available THEN "model" ELSE "None"
    /\ init_log' = IF cached_model = "None" /\ AQI_MODEL_PATH \in files
                   THEN init_log \cup {<<0, "load">>} ELSE init_log
    /\ data' = [data EXCEPT !.loaded = DATA_PATH \in files]
    /\ pc' = "ready"
    /\ UNCHANGED <<hazeVars, error, files, source, resized, stages, vector, callers>>
    /\ UNCHANGED <<psiVars, aqi_choices, hours_ahead, stations, station,
                   history_values, step, future_predictions, model_inputs, apiVars>>

\* the stations a request can name: one of the dataset, one unknown
StationNames == {"A", "Z"}

ALL_PATH == "/api/future-predictions"

STATION_PATH == "/api/future-predictions/{station_name}"

\* time.time() moves on between two requests
Tick ==
    /\ pc = "ready"
    /\ now < MaxClock * 1800
    /\ now' = now + 1800
    /\ UNCHANGED <<hazeVars, pc, error, files, extVars>>
    /\ UNCHANGED <<psiVars, forecastVars, prediction_cache, request, response>>

\* get_future_predictions(hours), up to its call of predict_future_aqi: 503
\* without model or data, the cached result while it is younger than an
\* hour, else the forecast is computed
GetFuturePredictions ==
    /\ pc = "ready"
    /\ \E hours \in 0..MaxHours :
         /\ request' = [path |-> ALL_PATH, station_name |-> "none", hours |-> hours]
         /\ IF model = "None" \/ ~data.loaded
            THEN /\ response' = [status |-> 503, detail |-> "Model or data not available",
                                 body |-> <<>>]
                 /\ hours_ahead' = hours_ahead
                 /\ pc' = "ready"
            ELSE IF prediction_cache.filled
                    /\ now - prediction_cache.timestamp < CACHE_SECONDS
            THEN /\ response' = [status |-> 200, detail |-> "none",
                                 body |-> prediction_cache.data]
                 /\ hours_ahead' = hours_ahead
                 /\ pc' = "ready"
            ELSE /\ response' = response
                 /\ hours_ahead' = hours
                 /\ pc' = "forecast"
    /\ UNCHANGED <<hazeVars, error, files, extVars>>
    /\ UNCHANGED <<psiVars, model, data, aqi_choices, stations, station,
                   history_values, step, future_predictions, model_inputs,
                   prediction_cache, now>>

\* get_future_predictions after predict_future_aqi: the policy engine, the
\* cache filled with the result and the time of the request, the result
FuturePredictionsReturn ==
    /\ pc = "forecast_done"
    /\ request.path = ALL_PATH
    /\ LET result == apply_future_policy_engine(future_predictions)
       IN /\ prediction_cache' = [filled |-> TRUE, data |-> result, timestamp |-> now]
          /\ response' = [status |-> 200, detail |-> "none", body |-> result]
    /\ pc' = "ready"
    /\ UNCHANGED <<hazeVars, error, files, extVars>>
    /\ UNCHANGED <<psiVars, forecastVars, now, request>>

\* get_station_predictions(station_name, hours), up to its call of
\* predict_future_aqi
GetStationPredictions ==
    /\ pc = "ready"
    /\ \E station_name \in StationNames : \E hours \in 0..MaxHours :
         /\ request' = [path |-> STATION_PATH, station_name |-> station_name,
                        hours |-> hours]
         /\ IF model = "None" \/ ~data.loaded
            THEN /\ response' = [status |-> 503, detail |-> "Model or data not available",
                                 body |-> <<>>]
                 /\ hours_ahead' = hours_ahead
                 /\ pc' = "ready"
            ELSE /\ response' = response
                 /\ hours_ahead' = hours
                 /\ pc' = "forecast"
    /\ UNCHANGED <<hazeVars, error, files, extVars>>
    /\ UNCHANGED <<psiVars, model, data, aqi_choices, stations, station,
                   history_values, step, future_predictions, model_inputs,
                   prediction_cache, now>>

\* predictions_df[predictions_df['station_name'] == station_name]
station_preds(predictions, station_name) ==
    SelectSeq(predictions, LAMBDA r : r.station_name = station_name)

\* str(e) of HTTPException(404, "Station not found"): the status and the
\* detail, or the empty string where the exception class does not define it
NotFoundStr == {"404: Station not found", ""}

\* the try block of get_station_predictions after predict_future_aqi, and
\* its except Exception clause: a frame without rows has no column
\* station_name (KeyError); the HTTPException(404) raised for a station
\* without rows is an Exception as well, and both leave as a 500 whose
\* detail is str(e)
station_response(predictions, station_name, str) ==
    IF predictions = <<>>
    THEN [status |-> 500, detail |-> "'station_name'", body |-> <<>>]
    ELSE IF station_preds(predictions, station_name) = <<>>
    THEN [status |-> 500, detail |-> str, body |-> <<>>]
    ELSE [status |-> 200, detail |-> "none",
          body |-> apply_future_policy_engine(station_preds(predictions, station_name))]

StationPredictionsReturn ==
    /\ pc = "forecast_done"
    /\ request.path = STATION_PATH
    /\ \E str \in NotFoundStr :
         response' = station_response(future_predictions, request.station_name, str)
    /\ pc' = "ready"
    /\ UNCHANGED <<hazeVars, error, files, extVars>>
    /\ UNCHANGED <<psiVars, forecastVars, prediction_cache, now, request>>

(***************************************************************************)
(* Specification of the numeric pipeline as run_pipeline runs it:          *)
(* estimate_haze with the default configuration, then                      *)
(* extract_haze_features on its haze map.                                  *)
(***************************************************************************)
NoCache == [filled |-> FALSE, data |-> <<>>, timestamp |-> 0]

NoRequest == [path |-> "none", station_name |-> "none", hours |-> 0]

NoResponse == [status |-> 0, detail |-> "none", body |-> <<>>]

\* the dataset: whether it is loaded (data is not None), its latest timestamp
\* in hours, its stations in the order of their first rows, and the AQI
\* column of each station in the order of the timestamps, in tenths
NoData == [loaded |-> FALSE, latest |-> 0, names |-> <<>>, AQI |-> <<>>]

\* no second pass and no prediction of the index yet
PsiIdle ==
    /\ second_pass = <<>>
    /\ model_output = 0
    /\ psi = 0
    /\ category = "none"

\* predict_future_aqi not called, the API's globals as the module sets them
ForecastIdle ==
    /\ model = "None"
    /\ data = NoData
    /\ aqi_choices = {}
    /\ hours_ahead = 0
    /\ stations = <<>>
    /\ station = "none"
    /\ history_values = <<>>
    /\ step = 0
    /\ future_predictions = <<>>
    /\ model_inputs = <<>>

\* no request served yet
ApiIdle ==
    /\ prediction_cache = NoCache
    /\ now = 0
    /\ request = NoRequest
    /\ response = NoResponse

\* the state of the later stages and of the forecasting API, where a
\* specification does not use it
RestInit == PsiIdle /\ ForecastIdle /\ ApiIdle

\* run_pipeline and the predictors not in use
PipelineIdle ==
    /\ source = NoSource
    /\ resized = NoImage
    /\ stages = <<>>
    /\ vector = <<>>
    /\ callers = <<>>
    /\ cached_model = "None"
    /\ init_log = {}

\* the state outside haze estimation, where a specification does not use it
ExtInit == PipelineIdle /\ RestInit

NoFeatures == [mean_haze |-> 0, haze_variance |-> 0, max_haze |-> 0, contrast |-> 0]

CastModes == {"x86", "aarch64"}

Init ==
    /\ image \in Strips(MaxW)
    /\ patch_size = PATCH_SIZE
    /\ top_percent = TOP_PERCENT
    /\ omega = OMEGA
    /\ cast_mode \in CastModes
    /\ pc = "start"
    /\ dark_channel = <<>>
    /\ candidates = {}
    /\ atmospheric_light = <<0, 0, 0>>
    /\ transmission_map = <<>>
    /\ haze_map = <<>>
    /\ features = NoFeatures
    /\ error = "none"
    /\ files = {}
    /\ ExtInit

Next ==
    \/ ComputeDarkChannel
    \/ EstimateAtmosphericLight
    \/ ComputeTransmissionMap
    \/ ComputeHazeMap
    \/ VisualiseHazeMap
    \/ ExtractHazeFeatures

Spec == Init /\ [][Next]_vars

(***************************************************************************)
(* Specification of compute_dark_channel alone: any patch size             *)
(***************************************************************************)
InitDark ==
    /\ image \in Images(MaxDarkH, MaxDarkW)
    /\ patch_size \in (0 - 1)..MaxPatch
    /\ top_percent = TOP_PERCENT
    /\ omega = OMEGA
    /\ cast_mode = "x86"
    /\ pc = "start"
    /\ dark_channel = <<>>
    /\ candidates = {}
    /\ atmospheric_light = <<0, 0, 0>>
    /\ transmission_map = <<>>
    /\ haze_map = <<>>
    /\ features = NoFeatures
    /\ error = "none"
    /\ files = {}
    /\ ExtInit

NextDark == ComputeDarkChannel \/ ComputeDarkChannelAgain

SpecDark == InitDark /\ [][NextDark]_vars

(***************************************************************************)
(* Specification of estimate_atmospheric_light: compute_dark_channel, then *)
(* the estimate for any top_percent; and, with the default configuration,  *)
(* one-row images long enough for more than one candidate.                 *)
(***************************************************************************)
TopPercents == {<<0, 1>>, <<1, 1000>>, <<1, 10>>, <<1, 2>>, <<1, 1>>}

InitLight ==
    /\ \/ /\ image \in Images(MaxLightH, MaxLightW)
          /\ patch_size \in {1, PATCH_SIZE}
          /\ top_percent \in TopPercents
       \/ /\ image \in Strips(MaxStrip)
          /\ patch_size = PATCH_SIZE
          /\ top_percent = TOP_PERCENT
    /\ omega = OMEGA
    /\ cast_mode = "x86"
    /\ pc = "start"
    /\ dark_channel = <<>>
    /\ candidates = {}
    /\ atmospheric_light = <<0, 0, 0>>
    /\ transmission_map = <<>>
    /\ haze_map = <<>>
    /\ features = NoFeatures
    /\ error = "none"
    /\ files = {}
    /\ ExtInit

NextLight == ComputeDarkChannel \/ EstimateAtmosphericLight

SpecLight == InitLight /\ [][NextLight]_vars

(***************************************************************************)
(* Specification of compute_transmission_map alone: any atmospheric light  *)
(* and omega                                                               *)
(***************************************************************************)
Lights == Palette \cup {<<255, 255, 255>>, <<0, 100, 255>>}

\* omega in twentieths: -0.5, 0.95, 1.0, 2.0
Omegas == {0 - 10, OMEGA, 20, 40}

InitTrans ==
    /\ image \in Images(MaxTransH, MaxTransW)
    /\ patch_size \in {1, PATCH_SIZE}
    /\ top_percent = TOP_PERCENT
    /\ omega \in Omegas
    /\ cast_mode \in CastModes
    /\ pc = "light"
    /\ dark_channel = <<>>
    /\ candidates = {}
    /\ atmospheric_light \in Lights
    /\ transmission_map = <<>>
    /\ haze_map = <<>>
    /\ features = NoFeatures
    /\ error = "none"
    /\ files = {}
    /\ ExtInit

NextTrans == ComputeTransmissionMap

SpecTrans == InitTrans /\ [][NextTrans]_vars

(***************************************************************************)
(* Specification of extract_haze_features and features_to_vector: any      *)
(* field with values in [0, 1], the zero-size field included               *)
(***************************************************************************)
\* 0, 19/5100, 38/5100, 0.2, 0.95, 0.99, 1.0
HazeValues == {0, 19, 38, 1020, 4845, 5049, FDen}

Fields(maxLen) == UNION {[1..n -> HazeValues] : n \in 0..maxLen}

InitFeat ==
    /\ haze_map \in Fields(MaxFieldLen)
    /\ image = [h |-> 1, w |-> Len(haze_map), px |-> <<>>]
    /\ patch_size = PATCH_SIZE
    /\ top_percent = TOP_PERCENT
    /\ omega = OMEGA
    /\ cast_mode = "x86"
    /\ pc = "visualised"
    /\ dark_channel = <<>>
    /\ candidates = {}
    /\ atmospheric_light = <<0, 0, 0>>
    /\ transmission_map = <<>>
    /\ features = NoFeatures
    /\ error = "none"
    /\ files = {}
    /\ ExtInit

NextFeat == ExtractHazeFeatures \/ FeaturesToVector

SpecFeat == InitFeat /\ [][NextFeat]_vars

(***************************************************************************)
(* Specification of the numeric pipeline on single-colour images: any      *)
(* colour built from the sample levels, the default configuration          *)
(***************************************************************************)
Levels == {0, 100, 255}

Colours == Levels \X Levels \X Levels

Uniform(h, w, c) == Painted(h, w, c, 1, c, 1, c)

UniformImages(maxH, maxW) ==
    {Uniform(h, w, c) : h \in 1..maxH, w \in 1..maxW, c \in Colours}

InitUniform ==
    /\ image \in UniformImages(MaxUniH, MaxUniW)
    /\ patch_size = PATCH_SIZE
    /\ top_percent = TOP_PERCENT
    /\ omega = OMEGA
    /\ cast_mode \in CastModes
    /\ pc = "start"
    /\ dark_channel = <<>>
    /\ candidates = {}
    /\ atmospheric_light = <<0, 0, 0>>
    /\ transmission_map = <<>>
    /\ haze_map = <<>>
    /\ features = NoFeatures
    /\ error = "none"
    /\ files = {}
    /\ ExtInit

NextUniform == Next

SpecUniform == InitUniform /\ [][NextUniform]_vars

(***************************************************************************)
(* Specification of resize_image alone: shapes with no pixel content, of   *)
(* any aspect ratio, with an empty side or not; and small images with      *)
(* their pixels                                                            *)
(***************************************************************************)
Shapes == {[h |-> h, w |-> w, px |-> <<>>] : h \in Dims, w \in Dims}

InitResize ==
    /\ image \in Shapes \cup Strips(MaxResizeW)
    /\ patch_size = PATCH_SIZE
    /\ top_percent = TOP_PERCENT
    /\ omega = OMEGA
    /\ cast_mode = "x86"
    /\ pc = "resize"
    /\ dark_channel = <<>>
    /\ candidates = {}
    /\ atmospheric_light = <<0, 0, 0>>
    /\ transmission_map = <<>>
    /\ haze_map = <<>>
    /\ features = NoFeatures
    /\ error = "none"
    /\ files = {}
    /\ ExtInit

NextResize == ResizeImage

SpecResize == InitResize /\ [][NextResize]_vars

(***************************************************************************)
(* Specification of run_pipeline: any source file, the predictor saved or  *)
(* not                                                                     *)
(***************************************************************************)
\* image files: one that cv2.imread cannot decode, and decodable ones of any
\* shape with both sides >= 1
Sources ==
    {NoSource} \cup
    {[decodable |-> TRUE, h |-> h, w |-> w] : h \in Dims \ {0}, w \in Dims \ {0}}

InitPipeline ==
    /\ source \in Sources
    /\ files \in {{}, {PSI_MODEL_PATH}}
    /\ image = NoImage
    /\ patch_size = PATCH_SIZE
    /\ top_percent = TOP_PERCENT
    /\ omega = OMEGA
    /\ cast_mode = "x86"
    /\ pc = "run"
    /\ dark_channel = <<>>
    /\ candidates = {}
    /\ atmospheric_light = <<0, 0, 0>>
    /\ transmission_map = <<>>
    /\ haze_map = <<>>
    /\ features = NoFeatures
    /\ error = "none"
    /\ resized = NoImage
    /\ stages = <<>>
    /\ vector = <<>>
    /\ callers = <<>>
    /\ cached_model = "None"
    /\ init_log = {}
    /\ RestInit

NextPipeline ==
    \/ MakeOutputDir
    \/ Preprocess
    \/ EstimateHaze
    \/ ExtractFeatures
    \/ LoadModel
    \/ PredictPsi
    \/ AssembleResult

SpecPipeline == InitPipeline /\ [][NextPipeline]_vars

(***************************************************************************)
(* Specification of the first use of the predictors by concurrent callers: *)
(* each caller runs load_model or load_prediction_model once, the saved    *)
(* models being there or not                                               *)
(***************************************************************************)
Callers == 1..NumCallers

LoadFunctions == {"load_model", "load_prediction_model"}

InitPredictor ==
    /\ callers \in [Callers -> {[fn |-> f, at |-> "call"] : f \in LoadFunctions}]
    /\ files \in SUBSET {PSI_MODEL_PATH, AQI_MODEL_PATH}
    /\ cached_model = "None"
    /\ init_log = {}
    /\ RestInit
    /\ image = NoImage
    /\ patch_size = PATCH_SIZE
    /\ top_percent = TOP_PERCENT
    /\ omega = OMEGA
    /\ cast_mode = "x86"
    /\ pc = "serving"
    /\ dark_channel = <<>>
    /\ candidates = {}
    /\ atmospheric_light = <<0, 0, 0>>
    /\ transmission_map = <<>>
    /\ haze_map = <<>>
    /\ features = NoFeatures
    /\ error = "none"
    /\ source = NoSource
    /\ resized = NoImage
    /\ stages = <<>>
    /\ vector = <<>>

NextPredictor ==
    \/ \E c \in Callers : LoadModelExists(c)
    \/ \E c \in Callers : LoadModelLoad(c)
    \/ \E c \in Callers : LoadModelTrain(c)
    \/ \E c \in Callers : CheckCache(c)
    \/ \E c \in Callers : PredictionModelExists(c)
    \/ \E c \in Callers : PredictionModelLoad(c)

SpecPredictor == InitPredictor /\ [][NextPredictor]_vars


(***************************************************************************)
(* Specification of predict_psi and psi_category: any model output, and    *)
(* psi_category on any PSI in tenths between -10 and MaxPsi / 10.          *)
(***************************************************************************)
\* haze estimation not in use
HazeIdle ==
    /\ image = NoImage
    /\ patch_size = PATCH_SIZE
    /\ top_percent = TOP_PERCENT
    /\ omega = OMEGA
    /\ cast_mode = "x86"
    /\ dark_channel = <<>>
    /\ candidates = {}
    /\ atmospheric_light = <<0, 0, 0>>
    /\ transmission_map = <<>>
    /\ haze_map = <<>>
    /\ features = NoFeatures

PsiValues == (0 - 100)..MaxPsi

InitPsi ==
    /\ HazeIdle
    /\ files = {}
    /\ error = "none"
    /\ PipelineIdle
    /\ second_pass = <<>>
    /\ model_output = 0
    /\ category = "none"
    /\ \/ pc = "model" /\ psi = 0
       \/ pc = "psi" /\ psi \in PsiValues
    /\ ForecastIdle
    /\ ApiIdle

NextPsi == PredictPsi \/ PsiCategory

SpecPsi == InitPsi /\ [][NextPsi]_vars

(***************************************************************************)
(* Specification of predict_future_aqi followed by the policy engine: a    *)
(* dataset of one or two stations with histories shorter than, equal to    *)
(* and longer than 24 values, hours_ahead from 0 to MaxHours, the model    *)
(* file present or missing.                                                *)
(***************************************************************************)
\* an AQI column of n rising values
History(n, first) == [k \in 1..n |-> first + 10 * k]

HistoryLengths == {1, 23, 24, 26}

Datasets ==
    {[loaded |-> TRUE, latest |-> 100, names |-> <<"A">>,
      AQI |-> <<History(n, 1000)>>] : n \in HistoryLengths}
    \cup {[loaded |-> TRUE, latest |-> 100, names |-> <<"A", "B">>,
           AQI |-> <<History(3, 1000), History(25, 2000)>>],
          [loaded |-> TRUE, latest |-> 100, names |-> <<"B", "A">>,
           AQI |-> <<History(24, 2900), History(2, 50)>>]}

\* what model.predict(...)[0] + random.uniform(-5, 5) can give, in tenths:
\* below zero, and on and next to the thresholds of the risk levels
AqiOutputs == {0 - 20, 2005, 3005, 3010}

InitForecast ==
    /\ HazeIdle
    /\ error = "none"
    /\ PipelineIdle
    /\ PsiIdle
    /\ ApiIdle
    /\ files \in {{}, {AQI_MODEL_PATH}}
    /\ pc = "forecast"
    /\ model = "None"
    /\ data \in Datasets
    /\ aqi_choices = AqiOutputs
    /\ hours_ahead \in 0..MaxHours
    /\ stations = <<>>
    /\ station = "none"
    /\ history_values = <<>>
    /\ step = 0
    /\ future_predictions = <<>>
    /\ model_inputs = <<>>

NextForecast == PredictFutureAqi \/ NextStation \/ PredictHour \/ ApplyFuturePolicyEngine

SpecForecast == InitForecast /\ [][NextForecast]_vars

(***************************************************************************)
(* Specification of the forecasting API: startup with the model file and   *)
(* the dataset present or missing, then requests one after the other to    *)
(* both forecast routes, with hours from 0 to MaxHours, while the clock    *)
(* advances by half hours.                                                 *)
(***************************************************************************)
ApiDatasets ==
    {[loaded |-> FALSE, latest |-> 100, names |-> <<"A">>,
      AQI |-> <<History(3, 1000)>>],
     [loaded |-> FALSE, latest |-> 100, names |-> <<"A", "B">>,
      AQI |-> <<History(24, 1000), History(2, 2000)>>]}

InitApi ==
    /\ HazeIdle
    /\ error = "none"
    /\ PipelineIdle
    /\ PsiIdle
    /\ ApiIdle
    /\ files \in SUBSET {AQI_MODEL_PATH, DATA_PATH}
    /\ pc = "startup"
    /\ model = "None"
    /\ data \in ApiDatasets
    /\ aqi_choices = {3005}
    /\ hours_ahead = 0
    /\ stations = <<>>
    /\ station = "none"
    /\ history_values = <<>>
    /\ step = 0
    /\ future_predictions = <<>>
    /\ model_inputs = <<>>

NextApi ==
    \/ StartupEvent
    \/ Tick
    \/ GetFuturePredictions
    \/ GetStationPredictions
    \/ PredictFutureAqi
    \/ NextStation
    \/ PredictHour
    \/ FuturePredictionsReturn
    \/ StationPredictionsReturn

SpecApi == InitApi /\ [][NextApi]_vars

(***************************************************************************)
(* Properties                                                              *)
(***************************************************************************)
Abs(x) == IF x < 0 THEN 0 - x ELSE x

Pixels == 1..NumPixels(image)

RowOf(i) == ((i - 1) \div image.w) + 1

ColOf(i) == ((i - 1) % image.w) + 1

HazeDone == pc \in {"haze", "visualised", "features"}

\* C1: for every non-empty image, the haze map estimate_haze returns has one
\* value per pixel, each in [0, 1], and equal to 1 - transmission_map there.
C1_HazeMapIsInvertedTransmission ==
    HazeDone =>
        /\ Len(haze_map) = NumPixels(image)
        /\ Len(transmission_map) = NumPixels(image)
        /\ \A i \in Pixels :
              /\ haze_map[i] >= 0
              /\ haze_map[i] <= FDen
              /\ haze_map[i] = FDen - transmission_map[i]

\* estimate_haze has returned a haze map that is neither uniform nor zero
C1_Witness ==
    /\ pc = "features"
    /\ \E i, j \in Pixels : haze_map[i] > 0 /\ haze_map[i] # haze_map[j]

\* the integer part of 255 * p / (a + 2.55e-6) with nothing wrapped or
\* truncated; RatioCap, above every ratio to a non-zero light component,
\* stands for the ratio of a sample to a zero light component (10^8 at least)
RatioCap == 255 * 255 + 1

UnwrappedRatio(p, a) ==
    IF p = 0 THEN 0
    ELSE IF a = 0 THEN RatioCap
    ELSE IF (255 * p) % a = 0 THEN (255 * p) \div a - 1 ELSE (255 * p) \div a

\* the dark channel (in units of 1/255, rounded down) of the unclamped ratio
\* pixel / (light + eps) at pixel i
UnwrappedDark(i) ==
    LET half == (patch_size - 1) \div 2 IN
    SetMin({UnwrappedRatio(image.px[j][ch], atmospheric_light[ch]) :
              j \in {k \in Pixels : /\ Abs(RowOf(k) - RowOf(i)) <= half
                                    /\ Abs(ColOf(k) - ColOf(i)) <= half},
              ch \in 1..3})

\* C2: compute_transmission_map yields clip(1 - omega * D, 0.01, 1.0) at every
\* pixel, D the dark channel of the unclamped ratio pixel / (light + eps): a
\* ratio above 1 is neither truncated nor wrapped.  Stated up to the 1/255
\* step in which the code holds D: the transmission lies between the values
\* for D rounded down and D rounded up to that step.
C2_TransmissionOfUnclampedRatio ==
    (pc \in {"trans", "haze", "visualised", "features"} /\ omega >= 0) =>
        \A i \in Pixels :
           /\ transmission_map[i] <= clip(FDen - omega * UnwrappedDark(i), FDen \div 100, FDen)
           /\ transmission_map[i] >= clip(FDen - omega * (UnwrappedDark(i) + 1), FDen \div 100, FDen)

\* C3: for every image, atmospheric light and omega, every transmission value
\* lies in [0.01, 1.0]; none is 0.
C3_TransmissionInRange ==
    pc = "trans" =>
        /\ Len(transmission_map) = NumPixels(image)
        /\ \A i \in Pixels :
              /\ transmission_map[i] >= FDen \div 100
              /\ transmission_map[i] <= FDen
              /\ transmission_map[i] # 0

\* both ends of the clamp are in use: omega = 2.0 pushes 1 - omega * D below
\* the floor, and another pixel is at 1.0
C3_Witness ==
    /\ pc = "trans"
    /\ omega = 40
    /\ \E i, j \in Pixels :
          /\ transmission_map[i] = FDen \div 100
          /\ FDen - omega * compute_dark_channel(
                 normalised(image.px, atmospheric_light, cast_mode),
                 image.h, image.w, patch_size)[i] < 0
          /\ transmission_map[j] = FDen

\* C4: for an odd patch size P >= 1, compute_dark_channel returns at (r, c)
\* the minimum, over the in-image pixels (r', c') with |r' - r| <= (P-1)/2 and
\* |c' - c| <= (P-1)/2, of the minimum of the pixel's three channels; at the
\* border the window shrinks, nothing outside the image or wrapped takes part.
C4_DarkChannelIsWindowMin ==
    (pc = "dark" /\ patch_size >= 1 /\ patch_size % 2 = 1) =>
        /\ Len(dark_channel) = NumPixels(image)
        /\ \A i \in Pixels :
              LET half == (patch_size - 1) \div 2
                  win  == {j \in Pixels : /\ Abs(RowOf(j) - RowOf(i)) <= half
                                          /\ Abs(ColOf(j) - ColOf(i)) <= half}
              IN /\ \E j \in win : \E ch \in 1..3 : dark_channel[i] = image.px[j][ch]
                 /\ \A j \in win : \A ch \in 1..3 : dark_channel[i] <= image.px[j][ch]

\* a 3x3 window on a 3x3 image: the window of a corner is cut by the border
\* and its minimum differs from the one of the centre
C4_Witness ==
    /\ pc = "dark"
    /\ patch_size = 3
    /\ image.h = 3
    /\ image.w = 3
    /\ dark_channel[1] > dark_channel[5]
    /\ dark_channel[9] > dark_channel[5]

\* C5: compute_dark_channel called with a patch size that is even or smaller
\* than 1 fails with an error (InvalidPatchSizeError) and returns no field.
C5_InvalidPatchSizeFails ==
    (pc # "start" /\ (patch_size % 2 = 0 \/ patch_size < 1)) =>
        /\ pc = "failed"
        /\ error # "none"
        /\ dark_channel = <<>>

\* C6: the atmospheric light is the unmodified channel triple of one pixel of
\* the image; that pixel is one of the candidates, the num_top pixels with the
\* largest dark-channel values (every other pixel's value is <= every
\* candidate's), and has the largest sum of channels among the candidates.
C6_LightIsBrightestCandidate ==
    pc = "light" =>
        /\ candidates \subseteq Pixels
        /\ Cardinality(candidates) =
              Min2(Max2((NumPixels(image) * top_percent[1]) \div top_percent[2], 1),
                   NumPixels(image))
        /\ \A i \in Pixels \ candidates : \A j \in candidates :
              dark_channel[i] <= dark_channel[j]
        /\ \E i \in candidates :
              /\ atmospheric_light = image.px[i]
              /\ \A j \in candidates : Intensity(image.px[i]) >= Intensity(image.px[j])

\* several candidates of different brightness, and a pixel outside the
\* candidates that is brighter than the light chosen
C6_Witness ==
    /\ pc = "light"
    /\ Cardinality(candidates) >= 2
    /\ \E i, j \in candidates : Intensity(image.px[i]) < Intensity(image.px[j])
    /\ \E i \in Pixels \ candidates : Intensity(image.px[i]) > Intensity(atmospheric_light)

\* C7: with the default configuration the candidates are the top 0.1% of the
\* pixels by dark-channel value: max(floor(0.001 * N), 1) of N pixels.
C7_DefaultIsTenthOfPercent ==
    (pc = "light" /\ top_percent = TOP_PERCENT) =>
        Cardinality(candidates) = Max2(NumPixels(image) \div 1000, 1)

\* C8: for every non-empty image and every top_percent (0 and fractions with
\* top_percent * N < 1 included) there is at least one candidate, and a single
\* candidate is a pixel of maximal dark-channel value.
C8_CandidatesNeverEmpty ==
    pc = "light" =>
        /\ candidates # {}
        /\ Cardinality(candidates) = 1 =>
              \A i \in candidates : \A j \in Pixels : dark_channel[i] >= dark_channel[j]

\* top_percent = 0 on an image whose dark channel is not uniform
C8_Witness ==
    /\ pc = "light"
    /\ top_percent[1] = 0
    /\ Cardinality(candidates) = 1
    /\ \E i, j \in Pixels : dark_channel[i] < dark_channel[j]

FieldMax == SetMax(SeqRange(haze_map))

FieldMin == SetMin(SeqRange(haze_map))

\* C9: contrast == max_haze - min(field) exactly, for the values returned by
\* extract_haze_features (contrast and max_haze in 10^-4, the field in 1/FDen).
C9_ContrastExact ==
    pc = "features" =>
        features.contrast * FDen = features.max_haze * FDen - FieldMin * 10000

\* C9 (amended): contrast is max(field) - min(field) rounded to 4 decimals (at
\* most half of 10^-4 away from it), and so at most 10^-4 away from
\* max_haze - min(field).
C9_ContrastRounded ==
    pc = "features" =>
        /\ 2 * Abs(features.contrast * FDen - (FieldMax - FieldMin) * 10000) <= FDen
        /\ Abs(features.contrast * FDen - (features.max_haze * FDen - FieldMin * 10000))
              <= FDen

\* a field of the pipeline whose minimum is neither 0 nor its maximum
C9_Witness ==
    /\ pc = "features"
    /\ FieldMin > 0
    /\ FieldMin < FieldMax
    /\ features.contrast > 0

\* C10: for every non-empty field with values in [0, 1]:
\* 0 <= mean_haze <= max_haze <= 1, 0 <= contrast <= 1, haze_variance >= 0.
C10_FeatureRanges ==
    pc = "features" =>
        /\ 0 <= features.mean_haze
        /\ features.mean_haze <= features.max_haze
        /\ features.max_haze <= 10000
        /\ 0 <= features.contrast
        /\ features.contrast <= 10000
        /\ features.haze_variance >= 0

\* a field that spans [0, 1], its first element not the largest
C10_Witness ==
    /\ pc = "features"
    /\ FieldMin = 0
    /\ FieldMax = FDen
    /\ haze_map[1] < FDen
    /\ features.max_haze = 10000
    /\ features.contrast = 10000
    /\ features.mean_haze > 0
    /\ features.haze_variance > 0

\* C11: on an image whose pixels all have the same colour, the features
\* extracted from the haze map of estimate_haze have haze_variance = 0 and
\* contrast = 0.
C11_UniformImageHasNoSpread ==
    (/\ pc = "features"
     /\ \A i \in Pixels : image.px[i] = image.px[1])
        => (features.haze_variance = 0 /\ features.contrast = 0)

\* a white image of more than one pixel, whose haze is not zero
C11_Witness ==
    /\ pc = "features"
    /\ NumPixels(image) > 1
    /\ \A i \in Pixels : image.px[i] = <<255, 255, 255>>
    /\ features.mean_haze > 0
    /\ features.haze_variance = 0
    /\ features.contrast = 0

\* C12: resize_image never enlarges: an image with max(H, W) <= 640 comes
\* back with the same dimensions and pixels; of an image with max(H, W) >
\* 640 the larger output dimension is exactly 640 and the smaller one is
\* the input's smaller dimension times 640 / max(H, W), rounded down.
C12_ResizeNeverEnlarges ==
    pc = "resized" =>
        LET m == Max2(image.h, image.w)
            n == Min2(image.h, image.w)
        IN IF m <= 640
           THEN resized = image
           ELSE /\ Max2(resized.h, resized.w) = 640
                /\ Min2(resized.h, resized.w) = (n * 640) \div m

\* C13: resize_image accepts every image with H >= 1 and W >= 1 whatever
\* its aspect ratio: it raises no error and both output dimensions are >= 1.
C13_ResizeAcceptsEveryShape ==
    (pc \in {"resized", "failed"} /\ image.h >= 1 /\ image.w >= 1)
        => (pc = "resized" /\ resized.h >= 1 /\ resized.w >= 1)

\* C14: an image with a zero height or a zero width makes resize_image fail
\* with EmptyImageError: no other error and no result.
C14_EmptyImageFails ==
    (pc \in {"resized", "failed"} /\ (image.h = 0 \/ image.w = 0))
        => (pc = "failed" /\ error = "EmptyImageError")

\* C15: when the source cannot be decoded, preprocess fails at once with the
\* error of the decode, which leaves run_pipeline: preprocess is called
\* once, and no later stage (haze estimation, feature extraction, predictor
\* load, prediction, the writing of haze_map.png or result_summary.png) runs.
C15_DecodeFailureStopsPipeline ==
    ~source.decodable =>
        /\ stages \in {<<>>, <<"makedirs">>, <<"makedirs", "preprocess">>}
        /\ stages = <<"makedirs", "preprocess">>
              => (pc = "failed" /\ error = "FileNotFoundError")
        /\ files \cap {"output/haze_map.png", "output/result_summary.png"} = {}
        /\ init_log = {}

\* the failed run on an undecodable source
C15_Witness ==
    /\ ~source.decodable
    /\ pc = "failed"
    /\ error = "FileNotFoundError"
    /\ stages = <<"makedirs", "preprocess">>

\* C16: extract_haze_features on a zero-size haze field fails with
\* EmptyFieldError and returns no feature dictionary.
C16_EmptyFieldError ==
    (Len(haze_map) = 0 /\ pc \in {"features", "failed"})
        => (pc = "failed" /\ error = "EmptyFieldError" /\ features = NoFeatures)


\* C17: on every non-empty image, the all-black one and those whose
\* atmospheric light has a zero component included, the numeric stages of
\* estimate_haze raise no error, and dark_channel, transmission_map and
\* haze_map have the H x W shape of the image with values in their ranges:
\* [0, 1], [0.01, 1] and [0, 0.99].
C17_NumericStagesWellFormed ==
    /\ pc # "failed"
    /\ error = "none"
    /\ pc # "start" =>
          /\ DOMAIN dark_channel = Pixels
          /\ \A i \in Pixels : dark_channel[i] \in 0..255
    /\ pc \in {"trans", "haze", "visualised", "features"} =>
          /\ DOMAIN transmission_map = Pixels
          /\ \A i \in Pixels : transmission_map[i] \in (FDen \div 100)..FDen
    /\ HazeDone =>
          /\ DOMAIN haze_map = Pixels
          /\ \A i \in Pixels : haze_map[i] \in 0..(FDen - FDen \div 100)

\* the haze map of an image with a bright pixel whose atmospheric light is
\* black: the division of a positive sample by the bare epsilon
C17_Witness ==
    /\ pc = "haze"
    /\ atmospheric_light = <<0, 0, 0>>
    /\ \E i \in Pixels : image.px[i] = <<40, 100, 255>>
    /\ DOMAIN haze_map = Pixels

\* C18: when several callers make their first use of a predictor at the same
\* time, its load-or-train initialisation is carried out at most once: no
\* two callers both load or both train the model.
C18_InitialisedAtMostOnce ==
    \A f \in LoadFunctions :
        Cardinality({e \in init_log : callers[e[1]].fn = f}) <= 1

C20_VectorOrderIsTrainingOrder ==
    pc = "vector" =>
        /\ Len(vector) = Len(training_columns)
        /\ \A i \in 1..Len(training_columns) : vector[i] = features[training_columns[i]]
        /\ training_columns = <<"mean_haze", "haze_variance", "max_haze", "contrast">>

\* a vector of four different values
C20_Witness ==
    /\ pc = "vector"
    /\ Cardinality({vector[i] : i \in 1..Len(vector)}) = 4
    /\ vector[2] = features.haze_variance
    /\ vector[3] = features.max_haze

C24_PsiWithinRange ==
    pc = "predicted" => (psi >= 0 /\ psi <= 5000)

\* a prediction from a model output above 500
C24_Witness ==
    /\ pc = "predicted"
    /\ model_output > 500 * 4
    /\ psi = 5000

\* the order of the categories by severity
Severity(c) ==
    CASE c = "Good" -> 1
      [] c = "Moderate" -> 2
      [] c = "Unhealthy" -> 3
      [] c = "Very Unhealthy" -> 4
      [] c = "Hazardous" -> 5

\* C25: psi_category gives every PSI exactly one of the five categories, by
\* the breakpoints <= 50 Good, <= 100 Moderate, <= 200 Unhealthy, <= 300
\* Very Unhealthy, > 300 Hazardous, and a higher PSI never has a less
\* severe category.
C25_CategoryByBreakpoints ==
    pc = "category" =>
        /\ category \in {"Good", "Moderate", "Unhealthy", "Very Unhealthy", "Hazardous"}
        /\ category = "Good" <=> psi <= 500
        /\ category = "Moderate" <=> (psi > 500 /\ psi <= 1000)
        /\ category = "Unhealthy" <=> (psi > 1000 /\ psi <= 2000)
        /\ category = "Very Unhealthy" <=> (psi > 2000 /\ psi <= 3000)
        /\ category = "Hazardous" <=> psi > 3000
        /\ \A q \in PsiValues :
              q <= psi => Severity(psi_category(q)) <= Severity(category)

\* the category of a PSI that is exactly a breakpoint
C25_Witness ==
    /\ pc = "category"
    /\ psi = 2000
    /\ category = "Unhealthy"

\* C26: compute_transmission_map is monotone in the pixel values: with the
\* atmospheric light, the patch size, a non-negative omega and every other
\* pixel fixed, raising the channel values of one pixel never raises the
\* transmission at any pixel.  In particular a pixel brighter than the light
\* in a channel is never given more transmission than a pixel equal to it.
C26_TransmissionMonotoneInPixel ==
    (pc = "trans" /\ omega >= 0) =>
        \A k \in Pixels : \A c \in Palette :
            (\A ch \in 1..3 : c[ch] >= image.px[k][ch]) =>
                LET raised == [image.px EXCEPT ![k] = c]
                    t2 == compute_transmission_map(raised, image.h, image.w,
                              atmospheric_light, patch_size, omega, cast_mode)
                IN \A i \in Pixels : t2[i] <= transmission_map[i]

\* the AQI column of a station in the dataset
ColumnOf(name) == data.AQI[CHOOSE k \in 1..Len(data.names) : data.names[k] = name]

\* the length of the history buffer before the first step
PaddedLength(name) == Max2(24, Len(ColumnOf(name)))

\* C29: predict_future_aqi forecasts recursively.  With a model and
\* hours_ahead = n >= 1 it emits for each station exactly n records, with the
\* timestamps latest + 1, ..., latest + n in this order; at every step after
\* the first the AQI_lag_1 given to the model is the value forecast at the
\* step before; the history buffer starts with max(24, rows) values (a
\* shorter history padded with its last value) and grows by one per step.
C29_RecursiveForecast ==
    /\ pc = "hour" => Len(history_values) = PaddedLength(station) + step - 1
    /\ \A k \in 1..Len(model_inputs) :
          LET m == model_inputs[k]
              column == ColumnOf(m.station_name)
          IN /\ m.history_length = PaddedLength(m.station_name) + m.step - 1
             /\ m.step > 1 =>
                   /\ model_inputs[k - 1].station_name = m.station_name
                   /\ model_inputs[k - 1].step = m.step - 1
                   /\ m.lags.AQI_lag_1 = model_inputs[k - 1].predicted_aqi
             /\ m.step = 1 =>
                   /\ m.lags.AQI_lag_1 = column[Len(column)]
                   /\ m.lags.AQI_lag_24 = IF Len(column) < 24 THEN column[Len(column)]
                                          ELSE column[Len(column) - 23]
    /\ (pc \in {"forecast_done", "policy_done"} /\ cached_model # "None"
            /\ hours_ahead >= 1) =>
          /\ Len(future_predictions) = Len(data.names) * hours_ahead
          /\ \A s \in 1..Len(data.names) : \A i \in 1..hours_ahead :
                LET r == future_predictions[(s - 1) * hours_ahead + i]
                IN /\ r.station_name = data.names[s]
                   /\ r.future_timestamp = data.latest + i

\* a forecast of two hours for two stations, one with a padded history, in
\* which the model's own forecast became the next lag
C29_Witness ==
    /\ pc = "forecast_done"
    /\ hours_ahead = 2
    /\ Len(data.names) = 2
    /\ Len(ColumnOf("A")) < 24
    /\ Len(future_predictions) = 4
    /\ model_inputs[2].lags.AQI_lag_1 = 3005
    /\ model_inputs[4].lags.AQI_lag_1 = 0

\* C30: in every record of predict_future_aqi that apply_future_policy_engine
\* has processed, the risk level agrees with the recommendations: Severe
\* exactly with the emergency set (predicted_AQI > 300), High exactly with
\* the set for 200 < AQI <= 300.
C30_RiskLevelAgreesWithPolicies ==
    pc = "policy_done" =>
        \A k \in 1..Len(future_predictions) :
            LET r == future_predictions[k]
            IN /\ r.risk_level = "Severe" <=> r.future_recommended_policies = EmergencyPolicies
               /\ r.risk_level = "High" <=> r.future_recommended_policies = RestrictPolicies

\* C27: with model and data loaded, a request to
\* /api/future-predictions/{station_name} for a station that has no
\* predictions (hours >= 1, the station is not in the forecast) is answered
\* with HTTP 404 and the detail "Station not found".
C27_UnknownStationIs404 ==
    (/\ pc = "ready"
     /\ request.path = STATION_PATH
     /\ model # "None" /\ data.loaded
     /\ request.hours >= 1
     /\ station_preds(future_predictions, request.station_name) = <<>>)
        => (response.status = 404 /\ response.detail = "Station not found")

\* C28: the response of get_future_predictions(hours = h) holds the forecast
\* for the horizon h that was asked for: h records per station, for the hours
\* latest + 1, ..., latest + h; also when it comes from the cache that an
\* earlier request with another value of hours has filled.
C28_ResponseHasRequestedHorizon ==
    (/\ pc = "ready"
     /\ request.path = ALL_PATH
     /\ request.hours >= 1
     /\ response.status = 200) =>
        /\ Len(response.body) = Len(data.names) * request.hours
        /\ \A s \in 1..Len(data.names) : \A i \in 1..request.hours :
              LET r == response.body[(s - 1) * request.hours + i]
              IN /\ r.station_name = data.names[s]
                 /\ r.future_timestamp = data.latest + i
====
